---------------------------- MODULE Spec2Model ----------------------------
(***************************************************************************)
(* Model of the InfoRecon search-result distillation pipeline              *)
(* (src/app/services/web_search_service.py): the redirect resolver, the    *)
(* boundary extractor, the link harvester, the digest rewriter and the     *)
(* orchestrating search(); and of what surrounds it: the Redis cache       *)
(* manager (src/app/cache/redis_cache.py), the caching decorator           *)
(* (src/app/cache/cache_decorator.py) and the /search endpoint             *)
(* (src/app/api/web_search_router.py).                                     *)
(*                                                                         *)
(* Text is a sequence of one-character strings.  Three fixed literals of   *)
(* the source are each abbreviated by a single letter that occurs nowhere  *)
(* else in the modelled texts:                                             *)
(*   "T" for the first line of the header marker, "B" for its second line, *)
(*   "F" for the footer marker, "P" for the "URL not found" phrase.        *)
(* Indices are 0-based as in the Python source: s[a:b] is Slice(s, a, b).  *)
(***************************************************************************)
EXTENDS Integers, Sequences, FiniteSets, TLC

VARIABLES
    \* harness around the pure text functions
    raw_text,            \* the markup handed to _clean_baidu_search_result
    cleaned,             \* its return value
    harvested,           \* the return value of _extract_urls_from_content on it
    cpc,                 \* "off" | "input" | "cleaned" | "harvested"
    \* WebSearchService and one run of _trace_url_redirects
    max_redirect_depth,  \* self.max_redirect_depth
    initial_url,         \* the argument
    current_url,
    visited,
    redirect_chain,
    iter,                \* iterations of `for _ in range(...)` started so far
    rpc,                 \* "idle" | "head" | "fetch" | "returned" | "raised"
    retval,              \* the returned chain once rpc = "returned"
    fetches,             \* this run's fetches: <<[url, resp], ...>>
    \* one run of search()
    spc,                 \* "idle" | "crawl" | "loop" | "resolving" | "done"
    query,
    markdown,            \* results.markdown: <<>> before the crawler returns, <<text>> after
    cleaned_content,
    extracted_urls,
    idx,                 \* how many of extracted_urls the loop has finished
    final_content,
    result,              \* the WebSearchInfo returned once spc = "done"
    crawls,              \* crawler requests issued by this search
    nfetch,              \* redirect fetches issued by this search
    failed_step,         \* the step whose exception search() caught, or "none"
    failed_message,      \* str(e) of that exception
    calls,               \* the URLs _trace_url_redirects was called with, in order
    pairs,               \* the (original_url, final_url) of the loop's iterations
    \* a second call of _trace_url_redirects that runs concurrently
    peer,                \* its locals, as a record
    \* Redis behind cache_manager, and the clock
    store,               \* key -> stored entry, for the keys Redis holds
    now,                 \* datetime.now(), in days
    got,                 \* the cache_manager.get that has just returned: arguments and outcome
    written,             \* the calls of cache_manager.set so far: <<[prefix, query, at, value, req], ...>>
    nsets,               \* calls of cache_manager.set so far
    \* GET /search behind @cached("search"), one request at a time
    apc,                 \* "off" | "idle" | "lookup" | "call" | "responded"
    param,               \* the q of the request
    headers,             \* headers set on the injected Response: {<<name, value>>}
    reply,               \* what the client gets once apc = "responded"
    ncalls,              \* invocations of the wrapped function by this request
    nreq                 \* requests so far

cvars == <<raw_text, cleaned, harvested, cpc>>
rvars == <<max_redirect_depth, initial_url, current_url, visited, redirect_chain,
           iter, rpc, retval, fetches>>
svars == <<spc, query, markdown, cleaned_content, extracted_urls, idx,
           final_content, result, crawls, nfetch, failed_step, failed_message,
           calls, pairs>>
\* what the resolver's steps leave alone
ovars == <<spc, query, markdown, cleaned_content, extracted_urls, idx,
           final_content, result, crawls, failed_step, failed_message, calls,
           pairs>>
\* what lies outside one call of search()
avars == <<store, now, got, written, nsets, apc, param, headers, reply, ncalls, nreq>>
xvars == <<peer, avars>>
vars == <<cvars, rvars, svars, xvars>>

---------------------------------------------------------------------------
(* Python string primitives                                                *)

SetMin(S) == CHOOSE x \in S : \A y \in S : x <= y
SetMax(S) == CHOOSE x \in S : \A y \in S : x >= y

IsWs(c) == c \in {" ", "\n"}

\* s[a:b]
Slice(s, a, b) == SubSeq(s, a + 1, IF b < Len(s) THEN b ELSE Len(s))

\* s[i:].startswith(sub)
StartsWithAt(s, sub, i) ==
    /\ i >= 0
    /\ i + Len(sub) <= Len(s)
    /\ SubSeq(s, i + 1, i + Len(sub)) = sub

\* s.find(sub, start): the first index >= start where sub occurs, or -1
Find(s, sub, start) ==
    LET hits == {i \in start..(Len(s) - Len(sub)) : StartsWithAt(s, sub, i)}
    IN  IF hits = {} THEN -1 ELSE SetMin(hits)

\* s.strip()
Strip(s) ==
    LET keep == {i \in 1..Len(s) : ~IsWs(s[i])}
    IN  IF keep = {} THEN <<>> ELSE SubSeq(s, SetMin(keep), SetMax(keep))

\* `^` under re.MULTILINE: the start of the text or just after a newline
LineStart(s, i) == i = 0 \/ (i > 0 /\ i <= Len(s) /\ s[i] = "\n")

\* the end of the maximal whitespace run that starts at index j
WsRunEnd(s, j) ==
    LET stops == {k \in j..Len(s) : k = Len(s) \/ ~IsWs(s[k + 1])}
    IN  SetMin(stops)

\* the elements of a finite set of integers in increasing order
RECURSIVE SortedSeq(_)
SortedSeq(S) ==
    IF S = {} THEN <<>>
    ELSE LET m == SetMin(S) IN <<m>> \o SortedSeq(S \ {m})

RECURSIVE Concat(_)
Concat(ss) == IF ss = <<>> THEN <<>> ELSE Head(ss) \o Concat(Tail(ss))

---------------------------------------------------------------------------
(* Literals of _clean_baidu_search_result                                  *)

marker == <<"T", "\n", "B">>
footer_marker == <<"F">>
not_found_phrase == <<"P">>
HeaderToken == <<"#", "#", "#", " ">>
Hashes == <<"#", "#", "#">>

\* list(re.finditer(r'(?m)^### ', content)): the start index of every match
HeaderMatches(content) ==
    SortedSeq({i \in 0..(Len(content) - 1) :
                  LineStart(content, i) /\ StartsWithAt(content, HeaderToken, i)})

\* the end of a match of r'^###\s*\n' that starts at i, or -1: "###", then the
\* whitespace run up to and including its last newline
BlankHeaderEnd(s, i) ==
    IF ~(LineStart(s, i) /\ StartsWithAt(s, Hashes, i)) THEN -1
    ELSE LET e == WsRunEnd(s, i + 3)
             nl == {k \in (i + 3)..(e - 1) : s[k + 1] = "\n"}
         IN  IF nl = {} THEN -1 ELSE SetMax(nl) + 1

\* re.sub(r'^###\s*\n', '### ', content, flags=re.MULTILINE), from index i on
RECURSIVE NormalizeFrom(_, _)
NormalizeFrom(s, i) ==
    LET starts == {k \in i..(Len(s) - 1) : BlankHeaderEnd(s, k) # -1}
    IN  IF starts = {} THEN Slice(s, i, Len(s))
        ELSE LET k == SetMin(starts)
             IN  Slice(s, i, k) \o HeaderToken \o NormalizeFrom(s, BlankHeaderEnd(s, k))

NormalizeHeaders(content) == NormalizeFrom(content, 0)

\* the end of the line that holds index i (the index of its newline, or len)
LineEnd(s, i) ==
    LET n == Find(s, <<"\n">>, i) IN IF n = -1 THEN Len(s) ELSE n

\* re.split(r'(^### .*$)', content, flags=re.MULTILINE), from index pos on:
\* text, header line, text, header line, ..., text
RECURSIVE SplitFrom(_, _)
SplitFrom(s, pos) ==
    LET starts == {i \in pos..(Len(s) - 1) :
                      LineStart(s, i) /\ StartsWithAt(s, HeaderToken, i)}
    IN  IF starts = {} THEN <<Slice(s, pos, Len(s))>>
        ELSE LET i == SetMin(starts)
                 e == LineEnd(s, i)
             IN  <<Slice(s, pos, i), Slice(s, i, e)>> \o SplitFrom(s, e)

\* the end of the match of r'\[([^\]]+)\]\(([^\)]+)\)' that starts at i, or -1
LinkEndAt(s, i) ==
    IF ~StartsWithAt(s, <<"[">>, i) THEN -1
    ELSE LET j == Find(s, <<"]">>, i + 1)
         IN  IF j = -1 \/ j < i + 2 \/ ~StartsWithAt(s, <<"(">>, j + 1) THEN -1
             ELSE LET k == Find(s, <<")">>, j + 2)
                  IN  IF k = -1 \/ k < j + 3 THEN -1 ELSE k + 1

\* re.search of that pattern: the end of the leftmost match, or -1
FirstLinkEnd(s) ==
    LET hits == {i \in 0..(Len(s) - 1) : LinkEndAt(s, i) # -1}
    IN  IF hits = {} THEN -1 ELSE LinkEndAt(s, SetMin(hits))

\* mutant: no section is trimmed
CleanSectionKeepAll(section) == section

\* one iteration of the loop over sections
CleanSection(section) ==
    IF StartsWithAt(section, HeaderToken, 0) THEN section
    ELSE IF Strip(section) # <<>>
         THEN LET end_pos == FirstLinkEnd(section)
              IN  IF end_pos # -1
                  THEN LET newline_pos == Find(section, <<"\n">>, end_pos)
                       IN  IF newline_pos # -1
                           THEN Slice(section, 0, newline_pos + 1)
                           ELSE Slice(section, 0, end_pos)
                  ELSE section
         ELSE section

\* the content after the preamble check
DropPreamble(content) ==
    LET matches == HeaderMatches(content)
    IN  IF matches # <<>>
           /\ Find(Slice(content, 0, matches[1]), not_found_phrase, 0) = -1
        THEN Slice(content, matches[1], Len(content))
        ELSE content

\* the cut to three results: `matches` are the positions found before the
\* headers were normalized, `content` is the normalized text
CutToThree(matches, content) ==
    IF Len(matches) > 3 THEN Strip(Slice(content, 0, matches[4])) ELSE content

\* mutant: the footer is never looked for
CutFooterNever(content) == content

CutFooter(content) ==
    LET footer_index == Find(content, footer_marker, 0)
    IN  IF footer_index # -1 THEN Strip(Slice(content, 0, footer_index))
        ELSE content

TrimSections(content) ==
    LET sections == SplitFrom(content, 0)
    IN  Strip(Concat([n \in 1..Len(sections) |-> CleanSection(sections[n])]))

\* the pipeline after the marker check, on the text that follows the marker
CleanContent(content0) ==
    LET content1 == DropPreamble(content0)
        matches  == HeaderMatches(content1)
        content2 == NormalizeHeaders(content1)
        content3 == CutToThree(matches, content2)
        content4 == CutFooter(content3)
    IN  TrimSections(content4)

\* mutant: the `marker_start_index == -1` return is missing, so a text without
\* the marker is cleaned from index -1 + len(marker) on
CleanWithoutMarkerCheck(raw) ==
    LET marker_start_index == Find(raw, marker, 0)
    IN  CleanContent(Strip(Slice(raw, marker_start_index + Len(marker), Len(raw))))

\* WebSearchService._clean_baidu_search_result
CleanBaiduSearchResult(raw) ==
    LET marker_start_index == Find(raw, marker, 0)
    IN  IF marker_start_index = -1 THEN <<>>
        ELSE CleanContent(Strip(Slice(raw, marker_start_index + Len(marker), Len(raw))))

---------------------------------------------------------------------------
(* WebSearchService._extract_urls_from_content                             *)

\* the match of r"^###\s*\n?\[.*?\]\((.*?)\)" that starts at i: <<url>>, or
\* <<>> when there is none
HarvestAt(s, i) ==
    IF ~(LineStart(s, i) /\ StartsWithAt(s, Hashes, i)) THEN <<>>
    ELSE LET j == WsRunEnd(s, i + 3)
             eol == LineEnd(s, j)
         IN  IF ~StartsWithAt(s, <<"[">>, j) THEN <<>>
             ELSE LET p == Find(s, <<"]", "(">>, j + 1)
                  IN  IF p = -1 \/ p >= eol THEN <<>>
                      ELSE LET q == Find(s, <<")">>, p + 2)
                           IN  IF q = -1 \/ q >= eol THEN <<>>
                               ELSE <<Slice(s, p + 2, q)>>

\* mutant: the pattern is not anchored to a header, every link is harvested
ExtractEveryLink(text) ==
    LET starts == SortedSeq({i \in 0..(Len(text) - 1) : LinkEndAt(text, i) # -1})
    IN  [n \in 1..Len(starts) |->
            Slice(text, Find(text, <<"]", "(">>, starts[n]) + 2, LinkEndAt(text, starts[n]) - 1)]

ExtractUrlsFromContent(text) ==
    LET starts == SortedSeq({i \in 0..(Len(text) - 1) : HarvestAt(text, i) # <<>>})
    IN  [n \in 1..Len(starts) |-> HarvestAt(text, starts[n])[1]]

\* final_content.replace(old, new): every non-overlapping occurrence, left to
\* right; an empty `old` matches before every character and at the end
RECURSIVE ReplaceFrom(_, _, _, _)
ReplaceFrom(s, old, new, i) ==
    LET at == Find(s, old, i)
    IN  IF at = -1 THEN Slice(s, i, Len(s))
        ELSE Slice(s, i, at) \o new \o ReplaceFrom(s, old, new, at + Len(old))

\* mutant: only the first occurrence is replaced, as by replace(old, new, 1)
ReplaceFirstOnly(s, old, new) ==
    LET at == Find(s, old, 0)
    IN  IF at = -1 THEN s
        ELSE Slice(s, 0, at) \o new \o Slice(s, at + Len(old), Len(s))

Replace(s, old, new) ==
    IF old = <<>>
    THEN Concat([n \in 1..Len(s) |-> new \o <<s[n]>>]) \o new
    ELSE ReplaceFrom(s, old, new, 0)

---------------------------------------------------------------------------
(* URLs and response bodies                                                *)

UrlA == <<"a">>
UrlB == <<"b">>
UrlC == <<"c">>
UrlD == <<"d">>
Urls == {UrlA, UrlB, UrlC, UrlD}

\* A body is a sequence of non-empty segments: n characters of plain text,
\* a run of n whitespace characters, or one redirect snippet aimed at u:
\*   "replace"  window.location.replace("u")
\*   "href"     window.location.href = "u"
\*   "assign"   window.location = "u"
\*   "meta"     <meta http-equiv="refresh" content="0;url=u">
Text(n) == [k |-> "text", n |-> n, u |-> <<>>]
Ws(n) == [k |-> "ws", n |-> n, u |-> <<>>]
Pat(kind, u) == [k |-> kind, n |-> 0, u |-> u]

\* the characters of a snippet: its fixed text plus the URL
PatLen(seg) ==
    Len(seg.u) + (CASE seg.k = "replace" -> 27
                    [] seg.k = "href" -> 25
                    [] seg.k = "assign" -> 20
                    [] seg.k = "meta" -> 44)

RECURSIVE SumSeq(_)
SumSeq(ns) == IF ns = <<>> THEN 0 ELSE Head(ns) + SumSeq(Tail(ns))

\* len(re.sub(r'\s+', ' ', html.strip()))
CollapsedLen(body) ==
    LET keep == {i \in 1..Len(body) : body[i].k # "ws"}
    IN  IF keep = {} THEN 0
        ELSE LET lo == SetMin(keep)
                 hi == SetMax(keep)
                 len(i) == IF body[i].k = "text" THEN body[i].n
                           ELSE IF body[i].k = "ws"
                                THEN (IF body[i - 1].k = "ws" THEN 0 ELSE 1)
                                ELSE PatLen(body[i])
             IN  SumSeq([i \in 1..(hi - lo + 1) |-> len(lo + i - 1)])

RedirectPageLimit == 1500

\* mutant: the comparison is >= instead of >
TooLongAtLimit(n) == n >= RedirectPageLimit

\* `if len(compact_html) > 1500: return None`
TooLong(n) == n > RedirectPageLimit

\* js_patterns + [meta_pattern], in the order the loop tries them
PatternOrder == <<"replace", "href", "assign", "meta">>

\* mutant: the target of the snippet that comes first in the body is taken
ExtractFirstByPosition(body) ==
    IF TooLong(CollapsedLen(body)) THEN <<>>
    ELSE LET found == {i \in 1..Len(body) : body[i].k \notin {"text", "ws"}}
         IN  IF found = {} THEN <<>> ELSE <<body[SetMin(found)].u>>

\* WebSearchService._extract_js_redirect: <<>> for None, <<u>> for a target
ExtractJsRedirect(body) ==
    IF TooLong(CollapsedLen(body)) THEN <<>>
    ELSE LET found == {p \in 1..Len(PatternOrder) :
                          \E i \in 1..Len(body) : body[i].k = PatternOrder[p]}
         IN  IF found = {} THEN <<>>
             ELSE LET kind == PatternOrder[SetMin(found)]
                      at == SetMin({i \in 1..Len(body) : body[i].k = kind})
                  IN  <<body[at].u>>

---------------------------------------------------------------------------
(* The transport: what one session.get of `url` can produce.  A response   *)
(* followed the server-side redirects url -> redirects[1] -> ...; aiohttp  *)
(* reports the redirecting responses in response.history and the URL it    *)
(* landed on in response.real_url.  An exception is raised either by       *)
(* session.get itself ("get") or by response.text() ("body").              *)

Ok(redirects, body) ==
    [kind |-> "ok", exc |-> "none", redirects |-> redirects, body |-> body]
GetError(exc) ==
    [kind |-> "get", exc |-> exc, redirects |-> <<>>, body |-> <<>>]
BodyError(exc, redirects) ==
    [kind |-> "body", exc |-> exc, redirects |-> redirects, body |-> <<>>]

ResponseHistory(url, resp) ==
    IF resp.redirects = <<>> THEN <<>>
    ELSE <<url>> \o SubSeq(resp.redirects, 1, Len(resp.redirects) - 1)

ResponseRealUrl(url, resp) ==
    IF resp.redirects = <<>> THEN url ELSE resp.redirects[Len(resp.redirects)]

\* `except (aiohttp.ClientError, TimeoutError)`
Caught(exc) == exc \in {"ClientError", "TimeoutError"}

\* str(e) of the exceptions the model raises
ExcMessage(exc) ==
    CASE exc = "ClientError" -> "Cannot connect to host"
      [] exc = "TimeoutError" -> ""
      [] exc = "UnicodeDecodeError" -> "codec can't decode byte"

---------------------------------------------------------------------------
(* WebSearchService._trace_url_redirects                                   *)

\* the list the response adds to redirect_chain
HopHistory(url, resp) ==
    IF ResponseHistory(url, resp) = <<>> THEN <<ResponseRealUrl(url, resp)>>
    ELSE ResponseHistory(url, resp) \o <<ResponseRealUrl(url, resp)>>

\* `return redirect_chain if redirect_chain else [initial_url]`
ChainOrInitial(chain, url) == IF chain # <<>> THEN chain ELSE <<url>>

\* mutant: the `if current_url in visited: break` is missing
LoopContinuesWithoutCycleGuard(n, depth, url, seen) == n < depth

\* mutant: the loop is `while True`, only the visited check ends it
LoopContinuesWithoutDepthGuard(n, depth, url, seen) == url \notin seen

\* the loop starts another iteration: range() is not exhausted and the
\* `if current_url in visited: break` does not fire
LoopContinues(n, depth, url, seen) == n < depth /\ url \notin seen

\* the local state of a fresh call
StartResolve(url) ==
    /\ initial_url' = url
    /\ current_url' = url
    /\ visited' = {}
    /\ redirect_chain' = <<>>
    /\ iter' = 0
    /\ retval' = <<>>
    /\ fetches' = <<>>
    /\ rpc' = "head"

\* the top of the for loop, up to the session.get it issues
LoopHead ==
    /\ rpc = "head"
    /\ IF LoopContinues(iter, max_redirect_depth, current_url, visited)
       THEN /\ visited' = visited \cup {current_url}
            /\ iter' = iter + 1
            /\ nfetch' = nfetch + 1
            /\ rpc' = "fetch"
            /\ UNCHANGED retval
       ELSE /\ retval' = ChainOrInitial(redirect_chain, initial_url)
            /\ rpc' = "returned"
            /\ UNCHANGED <<visited, iter, nfetch>>
    /\ UNCHANGED <<max_redirect_depth, initial_url, current_url, redirect_chain,
                   fetches, ovars, cvars>>
    /\ UNCHANGED xvars

Logged(resp) == Append(fetches, [url |-> current_url, resp |-> resp])

\* the response arrives and its body is read
FetchOk(resp) ==
    /\ rpc = "fetch"
    /\ resp.kind = "ok"
    /\ fetches' = Logged(resp)
    /\ redirect_chain' = redirect_chain \o HopHistory(current_url, resp)
    /\ LET js_redirect_url == ExtractJsRedirect(resp.body)
       IN  IF js_redirect_url # <<>>
           THEN /\ current_url' = js_redirect_url[1]
                /\ rpc' = "head"
                /\ UNCHANGED retval
           ELSE /\ retval' = ChainOrInitial(redirect_chain', initial_url)
                /\ rpc' = "returned"
                /\ UNCHANGED current_url
    /\ UNCHANGED <<max_redirect_depth, initial_url, visited, iter, nfetch, ovars,
                   cvars>>
    /\ UNCHANGED xvars

\* session.get raises an exception the except clause catches
FetchGetError(resp) ==
    /\ rpc = "fetch"
    /\ resp.kind = "get"
    /\ Caught(resp.exc)
    /\ fetches' = Logged(resp)
    /\ retval' = IF redirect_chain = <<>> THEN <<initial_url>>
                 ELSE ChainOrInitial(redirect_chain, initial_url)
    /\ rpc' = "returned"
    /\ UNCHANGED <<max_redirect_depth, initial_url, current_url, visited,
                   redirect_chain, iter, nfetch, ovars, cvars>>
    /\ UNCHANGED xvars

\* response.text() raises an exception the except clause catches: the chain
\* was extended before the body was read
FetchBodyError(resp) ==
    /\ rpc = "fetch"
    /\ resp.kind = "body"
    /\ Caught(resp.exc)
    /\ fetches' = Logged(resp)
    /\ redirect_chain' = redirect_chain \o HopHistory(current_url, resp)
    /\ retval' = IF redirect_chain' = <<>> THEN <<initial_url>>
                 ELSE ChainOrInitial(redirect_chain', initial_url)
    /\ rpc' = "returned"
    /\ UNCHANGED <<max_redirect_depth, initial_url, current_url, visited, iter,
                   nfetch, ovars, cvars>>
    /\ UNCHANGED xvars

\* any other exception leaves _trace_url_redirects
FetchRaises(resp) ==
    /\ rpc = "fetch"
    /\ resp.kind \in {"get", "body"}
    /\ ~Caught(resp.exc)
    /\ fetches' = Logged(resp)
    /\ redirect_chain' = IF resp.kind = "body"
                         THEN redirect_chain \o HopHistory(current_url, resp)
                         ELSE redirect_chain
    /\ rpc' = "raised"
    /\ UNCHANGED <<max_redirect_depth, initial_url, current_url, visited, iter,
                   retval, nfetch, ovars, cvars>>
    /\ UNCHANGED xvars

---------------------------------------------------------------------------
(* WebSearchService.search                                                 *)

\* WebSearchInfo: error is <<>> for None, <<message>> for a string
WebSearchInfo(q, text, err) == [query |-> q, search_result |-> text, error |-> err]

NoResult == WebSearchInfo("", <<>>, <<>>)

\* `return WebSearchInfo(query=query, search_result=final_content)`
OkResult(q, text) == WebSearchInfo(q, text, <<>>)

\* mutant: the handler returns an empty result and drops the message
ErrorResultWithoutMessage(q, message) == WebSearchInfo(q, <<>>, <<>>)

\* `except Exception as e: return WebSearchInfo(query=query, error=str(e))`
ErrorResult(q, message) == WebSearchInfo(q, <<>>, <<message>>)

\* search(query) is called and requests the page from the crawler
Search(q) ==
    /\ spc = "idle"
    /\ spc' = "crawl"
    /\ query' = q
    /\ crawls' = crawls + 1
    /\ UNCHANGED <<markdown, cleaned_content, extracted_urls, idx, final_content,
                   result, nfetch, failed_step, failed_message, calls, pairs>>
    /\ UNCHANGED <<cvars, rvars>>
    /\ UNCHANGED xvars

\* mutant: after an exception search() starts over
FailAndRetry(step, message) ==
    /\ result' = ErrorResult(query, message)
    /\ failed_step' = step
    /\ failed_message' = message
    /\ spc' = "idle"

\* the except clause of search()
Fail(step, message) ==
    /\ result' = ErrorResult(query, message)
    /\ failed_step' = step
    /\ failed_message' = message
    /\ spc' = "done"

\* crawler.arun returns markdown: the text is cleaned and its URLs harvested
CrawlOk(text) ==
    /\ spc = "crawl"
    /\ markdown' = <<text>>
    /\ cleaned_content' = CleanBaiduSearchResult(text)
    /\ extracted_urls' = ExtractUrlsFromContent(cleaned_content')
    /\ final_content' = cleaned_content'
    /\ idx' = 0
    /\ spc' = "loop"
    /\ UNCHANGED <<query, result, crawls, nfetch, failed_step, failed_message,
                   calls, pairs>>
    /\ UNCHANGED <<cvars, rvars>>
    /\ UNCHANGED xvars

\* crawler.arun raises
CrawlRaises(message) ==
    /\ spc = "crawl"
    /\ Fail("crawl", message)
    /\ UNCHANGED <<query, markdown, cleaned_content, extracted_urls, idx,
                   final_content, crawls, nfetch, calls, pairs>>
    /\ UNCHANGED <<cvars, rvars>>
    /\ UNCHANGED xvars

\* crawler.arun returns a result without markdown: raw_text.find raises
CrawlNoMarkdown ==
    /\ spc = "crawl"
    /\ Fail("extract", "'NoneType' object has no attribute 'find'")
    /\ UNCHANGED <<query, markdown, cleaned_content, extracted_urls, idx,
                   final_content, crawls, nfetch, calls, pairs>>
    /\ UNCHANGED <<cvars, rvars>>
    /\ UNCHANGED xvars

\* the head of `for original_url in extracted_urls`: call the resolver for
\* the next URL, or return the result
LoopNext ==
    /\ spc = "loop"
    /\ IF idx < Len(extracted_urls)
       THEN /\ StartResolve(extracted_urls[idx + 1])
            /\ calls' = Append(calls, extracted_urls[idx + 1])
            /\ spc' = "resolving"
            /\ UNCHANGED <<result, max_redirect_depth>>
       ELSE /\ result' = OkResult(query, final_content)
            /\ spc' = "done"
            /\ UNCHANGED <<rvars, calls>>
    /\ UNCHANGED <<query, markdown, cleaned_content, extracted_urls, idx,
                   final_content, crawls, nfetch, failed_step, failed_message,
                   pairs>>
    /\ UNCHANGED cvars
    /\ UNCHANGED xvars

\* the resolver returned: substitute the URL in the digest
Rewrite ==
    /\ spc = "resolving"
    /\ rpc = "returned"
    /\ LET original_url == extracted_urls[idx + 1]
           final_url == retval[Len(retval)]
       IN  /\ final_content' = Replace(final_content, original_url, final_url)
           /\ pairs' = Append(pairs, [original_url |-> original_url,
                                      final_url |-> final_url])
    /\ idx' = idx + 1
    /\ spc' = "loop"
    /\ rpc' = "idle"
    /\ UNCHANGED <<query, markdown, cleaned_content, extracted_urls, result, crawls,
                   nfetch, failed_step, failed_message, calls>>
    /\ UNCHANGED <<max_redirect_depth, initial_url, current_url, visited,
                   redirect_chain, iter, retval, fetches>>
    /\ UNCHANGED cvars
    /\ UNCHANGED xvars

\* the resolver raised: the except clause of search() takes over
ResolveRaised ==
    /\ spc = "resolving"
    /\ rpc = "raised"
    /\ Fail("resolve", ExcMessage(fetches[Len(fetches)].resp.exc))
    /\ rpc' = "idle"
    /\ UNCHANGED <<query, markdown, cleaned_content, extracted_urls, idx,
                   final_content, crawls, nfetch, calls, pairs>>
    /\ UNCHANGED <<max_redirect_depth, initial_url, current_url, visited,
                   redirect_chain, iter, retval, fetches>>
    /\ UNCHANGED cvars
    /\ UNCHANGED xvars

---------------------------------------------------------------------------
(* Inputs of the text functions                                            *)

MaxBlocks == 4

\* the URL of the link that heads the n-th block
UrlLetters == <<"a", "b", "c", "d", "e", "f">>
BlockUrl(n) == <<UrlLetters[n]>>

Link(u) == <<"[", "t", "]", "(">> \o u \o <<")">>

\* what may precede the first block: nothing found, the marker alone, junk
\* around the marker (after it a line with a link and a line of text), or the
\* "URL not found" phrase after the marker
Leads ==
    { <<"x", "\n">>,
      marker \o <<"\n">>,
      <<"x">> \o marker \o <<"\n">> \o Link(<<"z">>) \o <<"\n", "x", "\n">>,
      marker \o <<"\n", "P", "\n">> }

BlockShapes ==
    {"inline", "repeat", "body_link", "newline", "blank_line", "no_space", "footer"}

\* the text of the n-th block
Block(shape, n) ==
    CASE shape = "inline" ->
           HeaderToken \o Link(BlockUrl(n)) \o <<"\n">>
      [] shape = "repeat" ->
           HeaderToken \o Link(BlockUrl(1)) \o <<"\n">>
      [] shape = "body_link" ->
           HeaderToken \o Link(BlockUrl(n)) \o <<"\n", "x">> \o Link(<<"z">>)
               \o <<"\n", "y", "\n">>
      [] shape = "newline" ->
           HeaderToken \o <<"\n">> \o Link(BlockUrl(n)) \o <<"\n", "x", "\n">>
      [] shape = "blank_line" ->
           HeaderToken \o <<"\n", "\n">> \o Link(BlockUrl(n)) \o <<"\n">>
      [] shape = "no_space" ->
           Hashes \o <<"\n">> \o Link(BlockUrl(n)) \o <<"\n">>
      [] shape = "footer" ->
           <<"x">> \o Link(<<"z">>) \o <<"\n">> \o footer_marker \o <<"\n", "x", "\n">>

Render(lead, shapes) ==
    lead \o Concat([n \in 1..Len(shapes) |-> Block(shapes[n], n)])

ShapeSeqs == UNION {[1..n -> BlockShapes] : n \in 0..MaxBlocks}

Markups == {Render(lead, shapes) : lead \in Leads, shapes \in ShapeSeqs}

---------------------------------------------------------------------------
(* The text functions applied to one markup                                *)

CleanOff ==
    /\ raw_text = <<>>
    /\ cleaned = <<>>
    /\ harvested = <<>>
    /\ cpc = "off"

\* no concurrent call
NoPeer ==
    [initial_url |-> <<>>, current_url |-> <<>>, visited |-> {}, redirect_chain |-> <<>>,
     iter |-> 0, rpc |-> "idle", retval |-> <<>>, fetches |-> <<>>]

\* no get yet
NoGot ==
    [prefix |-> "", query |-> "", at |-> 0, sets |-> 0, before |-> <<>>, ret |-> <<>>,
     raised |-> "", gone |-> FALSE]

\* no response yet
NoReply == [status |-> 0, body |-> <<>>, detail |-> <<>>]

\* no cache and no endpoint
ApiOff ==
    /\ store = <<>>
    /\ now = 0
    /\ got = NoGot
    /\ written = <<>>
    /\ nsets = 0
    /\ apc = "off"
    /\ param = ""
    /\ headers = {}
    /\ reply = NoReply
    /\ ncalls = 0
    /\ nreq = 0

ResolverIdle ==
    /\ initial_url = <<>>
    /\ current_url = <<>>
    /\ visited = {}
    /\ redirect_chain = <<>>
    /\ iter = 0
    /\ rpc = "idle"
    /\ retval = <<>>
    /\ fetches = <<>>

SearchIdle(pc) ==
    /\ spc = pc
    /\ query = ""
    /\ markdown = <<>>
    /\ cleaned_content = <<>>
    /\ extracted_urls = <<>>
    /\ idx = 0
    /\ final_content = <<>>
    /\ result = NoResult
    /\ crawls = 0
    /\ nfetch = 0
    /\ failed_step = "none"
    /\ failed_message = ""
    /\ calls = <<>>
    /\ pairs = <<>>

DefaultMaxRedirectDepth == 3

InitClean ==
    /\ raw_text \in Markups
    /\ cleaned = <<>>
    /\ harvested = <<>>
    /\ cpc = "input"
    /\ max_redirect_depth = DefaultMaxRedirectDepth
    /\ ResolverIdle
    /\ SearchIdle("off")
    /\ peer = NoPeer
    /\ ApiOff

DoClean ==
    /\ cpc = "input"
    /\ cleaned' = CleanBaiduSearchResult(raw_text)
    /\ cpc' = "cleaned"
    /\ UNCHANGED <<raw_text, harvested, rvars, svars>>
    /\ UNCHANGED xvars

DoHarvest ==
    /\ cpc = "cleaned"
    /\ harvested' = ExtractUrlsFromContent(cleaned)
    /\ cpc' = "harvested"
    /\ UNCHANGED <<raw_text, cleaned, rvars, svars>>
    /\ UNCHANGED xvars

NextClean == DoClean \/ DoHarvest

SpecClean == InitClean /\ [][NextClean]_vars

---------------------------------------------------------------------------
(* One call of _trace_url_redirects against every transport behaviour      *)

MaxDepth == 4

Plain == <<Text(20)>>
JsTo(u) == <<Pat("replace", u)>>
\* exactly RedirectPageLimit characters, and one more
AtLimit(u) == <<Text(RedirectPageLimit - PatLen(Pat("replace", u))), Pat("replace", u)>>
OverLimit(u) == <<Text(RedirectPageLimit - PatLen(Pat("replace", u)) + 1), Pat("replace", u)>>
\* long only until its whitespace is collapsed
Padded(u) == <<Ws(40), Text(1000), Ws(700), Pat("href", u), Ws(9)>>
\* one character too long after the collapse
PaddedOver(u) == <<Text(RedirectPageLimit - PatLen(Pat("meta", u))), Ws(3), Pat("meta", u)>>
\* several snippets: the later one has the higher priority
Mixed == <<Pat("meta", UrlD), Pat("href", UrlC)>>

\* three kinds of snippet in the reverse of their priority, and one kind twice
Ranked == <<Pat("meta", UrlD), Pat("assign", UrlC), Text(5), Pat("href", UrlB)>>
Twice == <<Pat("assign", UrlC), Ws(2), Pat("assign", UrlD)>>

Bodies ==
    {Plain, AtLimit(UrlB), OverLimit(UrlB), Padded(UrlC), PaddedOver(UrlC), Mixed,
     Ranked, Twice}
        \cup {JsTo(u) : u \in Urls}

Excs == {"ClientError", "TimeoutError", "UnicodeDecodeError"}

Responses ==
    {Ok(<<>>, b) : b \in Bodies}
        \cup {Ok(r, b) : r \in {<<UrlD>>, <<UrlC, UrlD>>}, b \in {Plain, JsTo(UrlA)}}
        \cup {GetError(e) : e \in Excs}
        \cup {BodyError(e, r) : e \in Excs, r \in {<<>>, <<UrlD>>}}

InitResolve ==
    /\ CleanOff
    /\ SearchIdle("off")
    /\ max_redirect_depth \in 0..MaxDepth
    /\ initial_url \in {UrlA, UrlB}
    /\ current_url = initial_url
    /\ visited = {}
    /\ redirect_chain = <<>>
    /\ iter = 0
    /\ rpc = "head"
    /\ retval = <<>>
    /\ fetches = <<>>
    /\ peer = NoPeer
    /\ ApiOff

NextResolve ==
    \/ LoopHead
    \/ \E resp \in Responses : FetchOk(resp)
    \/ \E resp \in Responses : FetchGetError(resp)
    \/ \E resp \in Responses : FetchBodyError(resp)
    \/ \E resp \in Responses : FetchRaises(resp)

SpecResolve == InitResolve /\ [][NextResolve]_vars

\* the event loop runs the coroutine on: every response or exception the transport
\* delivers is handled, and the per-request timeout bounds the wait for it
SpecResolveLive == SpecResolve /\ WF_vars(NextResolve)

---------------------------------------------------------------------------
(* search() behind the router's WebSearchService()                         *)

Queries == {"foo", "Foo"}

CrawlMessages == {"", "render failed"}

\* a result block that is one header line with the link to u
Inline(u) == HeaderToken \o Link(u) \o <<"\n">>

\* pages without the marker, with one and two results, with three results
\* a, b, c, with the same URL in two results, and with a URL that is the
\* beginning of the next one
PipeMarkups ==
    { Render(<<"x", "\n">>, <<"inline">>),
      Render(marker \o <<"\n">>, <<"body_link">>),
      Render(<<"x">> \o marker \o <<"\n", "x", "\n">>, <<"newline", "newline">>),
      Render(marker \o <<"\n">>, <<"inline", "inline", "inline">>),
      marker \o <<"\n">> \o Inline(UrlA) \o Inline(UrlA),
      marker \o <<"\n">> \o Inline(UrlA) \o Inline(UrlA \o UrlB) }

PipeResponses ==
    { Ok(<<>>, Plain), Ok(<<>>, JsTo(UrlB)), Ok(<<UrlD>>, Plain),
      Ok(<<UrlA>>, Plain), Ok(<<UrlB>>, Plain),
      GetError("ClientError"), BodyError("TimeoutError", <<>>),
      BodyError("UnicodeDecodeError", <<>>) }

Init ==
    /\ CleanOff
    /\ ResolverIdle
    /\ max_redirect_depth = DefaultMaxRedirectDepth
    /\ SearchIdle("idle")
    /\ peer = NoPeer
    /\ ApiOff

Next ==
    \/ \E q \in Queries : Search(q)
    \/ \E m \in PipeMarkups : CrawlOk(m)
    \/ \E msg \in CrawlMessages : CrawlRaises(msg)
    \/ CrawlNoMarkdown
    \/ LoopNext
    \/ Rewrite
    \/ ResolveRaised
    \/ LoopHead
    \/ \E resp \in PipeResponses : FetchOk(resp)
    \/ \E resp \in PipeResponses : FetchGetError(resp)
    \/ \E resp \in PipeResponses : FetchBodyError(resp)
    \/ \E resp \in PipeResponses : FetchRaises(resp)

Spec == Init /\ [][Next]_vars

---------------------------------------------------------------------------
(* Claims about search(), checked under Spec                               *)

Failed == failed_step # "none"

\* C1: whatever way a hop's fetch fails, _trace_url_redirects does not raise
\* and returns a non-empty chain, so no failure inside redirect resolution
\* makes search() return a result with error set.
C1_ResolutionFailureNeverSurfaces ==
    /\ rpc # "raised"
    /\ rpc = "returned" => retval # <<>>
    /\ (spc = "done" /\ result.error # <<>>) => failed_step # "resolve"

\* C2: search() never raises: the step in which an exception is caught ends
\* the run (no fetch, crawler request, rewrite or loop step is made in it or
\* after it) with a result that carries the query, an empty digest and the
\* exception's message as error.
C2_SearchAbsorbsExceptions ==
    [][Failed' =>
          /\ spc' = "done"
          /\ nfetch' = nfetch
          /\ crawls' = crawls
          /\ idx' = idx
          /\ final_content' = final_content
          /\ result'.query = query'
          /\ result'.search_result = <<>>
          /\ result'.error = <<failed_message'>>]_vars

\* the third fetch of a search raised an exception the resolver lets through
C2_Witness ==
    /\ spc = "done"
    /\ failed_step = "resolve"
    /\ nfetch >= 2
    /\ idx = 1
    /\ final_content # cleaned_content
    /\ result.error = <<"codec can't decode byte">>

\* C3: every failed run yields a non-empty error field (an error that is
\* neither None nor the empty string), whatever the exception's message.
C3_FailureHasNonEmptyError ==
    Failed => (result.error # <<>> /\ result.error # <<"">>)

HasMarker(text) == Find(text, marker, 0) # -1

\* C4: when the markdown the crawler returned lacks the header marker, the
\* cleaned text is empty, no URL is harvested, no redirect fetch is issued and
\* search() returns an empty digest with error None.
C4_NoMarkerMeansEmptyDigest ==
    (markdown # <<>> /\ ~HasMarker(markdown[1])) =>
        /\ cleaned_content = <<>>
        /\ extracted_urls = <<>>
        /\ nfetch = 0
        /\ spc \in {"loop", "done"}
        /\ spc = "done" => result = [query |-> query, search_result |-> <<>>, error |-> <<>>]

C4_Witness ==
    /\ spc = "done"
    /\ markdown # <<>>
    /\ ~HasMarker(markdown[1])
    /\ Find(markdown[1], HeaderToken, 0) # -1
    /\ result.error = <<>>

---------------------------------------------------------------------------
(* Claims about the text functions, checked under SpecClean                *)

\* the text the blocks are cut from: what follows the marker, after the
\* preamble check
WorkingContent(raw) ==
    DropPreamble(Strip(Slice(raw, Find(raw, marker, 0) + Len(marker), Len(raw))))

\* the first three blocks of that text: everything before its 4th mark
FirstThreeBlocks(raw) ==
    Slice(WorkingContent(raw), 0, HeaderMatches(WorkingContent(raw))[4])

\* C5: when the marker is followed by 4 or more boundary marks the content is
\* cut exactly at the start of the 4th mark: the digest is what the first 3
\* blocks alone yield (headers normalized, footer cut, bodies trimmed) and
\* holds nothing of the 4th block.
C5_CutAtFourthMark ==
    (/\ cpc # "input"
     /\ HasMarker(raw_text)
     /\ Len(HeaderMatches(WorkingContent(raw_text))) >= 4) =>
        cleaned = TrimSections(CutFooter(Strip(NormalizeHeaders(FirstThreeBlocks(raw_text)))))

\* C6: the digest holds at most 3 lines that begin with the header token
\* "### ", and the harvester yields at most 3 URLs from it.
C6_AtMostThreeBlocks ==
    /\ cpc # "input" => Len(HeaderMatches(cleaned)) <= 3
    /\ cpc = "harvested" => Len(harvested) <= 3

---------------------------------------------------------------------------
(* Claims about _trace_url_redirects, checked under SpecResolve            *)

Last(seq) == seq[Len(seq)]

Requested == [i \in 1..Len(fetches) |-> fetches[i].url]

Ended == rpc \in {"returned", "raised"}

\* the client-side redirects A -> B -> C -> A
CycleNext(u) ==
    CASE u = UrlA -> UrlB
      [] u = UrlB -> UrlC
      [] u = UrlC -> UrlA
      [] OTHER -> u

\* every fetch so far succeeded without server-side redirect and returned a
\* page that redirects to the next URL of the cycle
InCycle ==
    /\ initial_url = UrlA
    /\ max_redirect_depth >= 3
    /\ \A i \in 1..Len(fetches) :
           fetches[i].resp = Ok(<<>>, JsTo(CycleNext(fetches[i].url)))

\* C7: on the cycle A -> B -> C -> A with max_redirect_depth >= 3 the
\* resolution terminates, has fetched A, B and C exactly once each, and its
\* chain ends with C.
C7_CycleEndsAtLastVisited ==
    /\ [](InCycle =>
            /\ Len(fetches) <= 3
            /\ rpc = "returned" => (Requested = <<UrlA, UrlB, UrlC>> /\ Last(retval) = UrlC))
    /\ <>Ended

\* the cycle closed on the visited set, not on the depth
C7_Witness ==
    /\ InCycle
    /\ max_redirect_depth > 3
    /\ rpc = "returned"
    /\ Len(fetches) = 3

\* the redirect targets written in a body
Targets(body) == {body[i].u : i \in {j \in 1..Len(body) : body[j].k \notin {"text", "ws"}}}

\* the URL the resolver turned to after the i-th fetch
TurnedTo(i) == IF i < Len(fetches) THEN fetches[i + 1].url ELSE current_url

C9_DepthZeroFetchesOnce ==
    (max_redirect_depth = 0 /\ rpc = "returned") =>
        /\ Len(fetches) = 1
        /\ fetches[1].url = initial_url
        /\ fetches[1].resp.kind = "ok" => retval = HopHistory(initial_url, fetches[1].resp)

\* C10: the depth guard counts client-side hops: a client-side redirect whose
\* target has not been visited is followed while fewer than
\* max_redirect_depth client-side hops have been used (the first fetch is not
\* a hop), so the resolver does not return in front of such a target.
C10_DepthCountsClientHops ==
    (rpc = "returned" /\ fetches # <<>>) =>
        ~ \E t \in Urls :
            /\ Last(fetches).resp = Ok(<<>>, JsTo(t))
            /\ t \notin visited
            /\ Len(fetches) - 1 < max_redirect_depth

\* the fetches after which the resolver took a client-side redirect
ClientHops ==
    {i \in 1..Len(fetches) :
        fetches[i].resp.kind = "ok" /\ ExtractJsRedirect(fetches[i].resp.body) # <<>>}

\* C11: in every state of a resolution no URL has been requested twice, at
\* most max_redirect_depth client-side hops have been taken and at most
\* max_redirect_depth fetches issued; every resolution reaches an end state.
C11_NoRepeatBoundedHops ==
    /\ [](/\ \A i, j \in 1..Len(fetches) : Requested[i] = Requested[j] => i = j
          /\ Cardinality(ClientHops) <= max_redirect_depth
          /\ Len(fetches) <= max_redirect_depth
          /\ visited = {Requested[i] : i \in 1..Len(fetches)}
                          \cup (IF rpc = "fetch" THEN {current_url} ELSE {}))
    /\ <>Ended

\* a self-redirect on the second hop ended the resolution before the depth did
C11_Witness ==
    /\ rpc = "returned"
    /\ max_redirect_depth = MaxDepth
    /\ Len(fetches) = 2
    /\ fetches[1].resp = Ok(<<>>, JsTo(UrlB))
    /\ fetches[2].resp = Ok(<<>>, JsTo(UrlB))
    /\ current_url = UrlB

\* the chain the first n fetches accumulated, had each of them succeeded
ChainOf(n) ==
    Concat([i \in 1..n |-> HopHistory(fetches[i].url, fetches[i].resp)])

\* the last fetch failed with an exception the except clause names
LastFetchFailed ==
    /\ fetches # <<>>
    /\ Last(fetches).resp.kind \in {"get", "body"}
    /\ Caught(Last(fetches).resp.exc)

\* C12: when a hop's fetch fails with a transport error or timeout the
\* resolution stops; on the first hop the chain returned is [initial_url], on
\* a later hop it is the chain of the hops before it, without the failing hop.
C12_FailedHopAddsNothing ==
    LastFetchFailed =>
        /\ rpc = "returned"
        /\ retval = IF Len(fetches) = 1 THEN <<initial_url>>
                    ELSE ChainOf(Len(fetches) - 1)

---------------------------------------------------------------------------
(* Claims about the rewriting loop of search(), checked under Spec         *)

\* search() returned a digest, not an error
Succeeded == spc = "done" /\ failed_step = "none"

\* the final_url of every iteration of the loop, in order
Terminals == [i \in 1..Len(pairs) |-> pairs[i].final_url]

\* C13: in the digest of a search that completed without error every block's
\* leading link target is the terminal URL that block's own candidate was
\* resolved to, whatever the candidates and terminals are.
C13_EveryBlockShowsItsTerminal ==
    Succeeded => ExtractUrlsFromContent(result.search_result) = Terminals

\* the loop of search() as a function: text after the literal replacements
\* of the first k pairs, applied one after the other
RECURSIVE Rewritten(_, _, _)
Rewritten(text, ps, k) ==
    IF k = 0 THEN text
    ELSE Replace(Rewritten(text, ps, k - 1), ps[k].original_url, ps[k].final_url)

\* the link targets the harvester reads from the digest after k steps
ShownAfter(k) == ExtractUrlsFromContent(Rewritten(cleaned_content, pairs, k))

\* C14: the rewriting is a sequence of literal replace-all steps over the
\* digest as the earlier steps left it, in harvest order: each block that
\* shows a step's original URL when the step starts - the output of an
\* earlier step included - shows that step's resolved URL after it.
C14_LaterStepRewritesEarlierOutput ==
    spc \in {"loop", "resolving", "done"} =>
        /\ Len(pairs) = idx
        /\ \A k \in 1..Len(pairs) : pairs[k].original_url = extracted_urls[k]
        /\ final_content = Rewritten(cleaned_content, pairs, Len(pairs))
        /\ \A k \in 1..Len(pairs) :
               \A n \in 1..Len(ShownAfter(k - 1)) :
                   ShownAfter(k - 1)[n] = pairs[k].original_url =>
                       ShownAfter(k)[n] = pairs[k].final_url

\* a resolved to b and then b resolved to d, so the first block shows d, and
\* running the same three replacements over the result changes it again
C14_Witness ==
    /\ Succeeded
    /\ Len(pairs) = 3
    /\ pairs[1].final_url = pairs[2].original_url
    /\ pairs[2].final_url # pairs[1].final_url
    /\ ExtractUrlsFromContent(result.search_result)[1] = pairs[2].final_url
    /\ Rewritten(result.search_result, pairs, Len(pairs)) # result.search_result

\* the resolver calls made so far are the harvested URLs, one call per
\* occurrence, in harvest order
CalledInHarvestOrder ==
    /\ Len(calls) <= Len(extracted_urls)
    /\ calls = SubSeq(extracted_urls, 1, Len(calls))
    /\ Len(calls) = idx + (IF spc = "resolving" \/ failed_step = "resolve" THEN 1 ELSE 0)
    /\ Succeeded => Len(calls) = Len(extracted_urls)

\* C15: the resolver is called once per harvested occurrence, in harvest
\* order, and when a URL was harvested from two blocks each of these blocks
\* shows the terminal of its own resolution.
C15_DuplicatesSubstitutedIndependently ==
    /\ CalledInHarvestOrder
    /\ Succeeded =>
          \A i, j \in 1..Len(extracted_urls) :
              (i # j /\ extracted_urls[i] = extracted_urls[j]) =>
                  ExtractUrlsFromContent(result.search_result)[i] = pairs[i].final_url

---------------------------------------------------------------------------
(* Claims about the harvester and the trimming, checked under SpecClean    *)

\* the lines that start a block: those beginning with "###"
HeaderLines(s) ==
    SortedSeq({i \in 0..(Len(s) - 1) : LineStart(s, i) /\ StartsWithAt(s, Hashes, i)})

\* the URL of the link that follows the header token at i on the same line
\* (after blanks) or at the start of the next line: <<url>>, or <<>>
LeadingLink(s, i) ==
    LET sp == SetMin({k \in (i + 3)..Len(s) : k = Len(s) \/ s[k + 1] # " "})
        j == IF sp < Len(s) /\ s[sp + 1] = "\n" THEN sp + 1 ELSE sp
        eol == LineEnd(s, j)
        close == Find(s, <<"]", "(">>, j + 1)
        end == Find(s, <<")">>, close + 2)
    IN  IF \/ ~StartsWithAt(s, <<"[">>, j)
           \/ close = -1 \/ close >= eol
           \/ end = -1 \/ end >= eol
        THEN <<>>
        ELSE <<Slice(s, close + 2, end)>>

LeadingLinks(s) ==
    Concat([n \in 1..Len(HeaderLines(s)) |-> LeadingLink(s, HeaderLines(s)[n])])

\* C16: from a digest the harvester returns, block by block in order, the URL
\* of the link that follows the block's header token on the same or the next
\* line: at most one URL per block, never the URL of a link in a block body
\* (all of which point to z), and the same URL again when two blocks carry it.
C16_OneLeadingLinkPerBlock ==
    cpc = "harvested" =>
        /\ harvested = LeadingLinks(cleaned)
        /\ Len(harvested) <= Len(HeaderLines(cleaned))
        /\ \A n \in 1..Len(harvested) : harvested[n] # <<"z">>

\* a digest with a link in a block body and the same URL in two blocks
C16_Witness ==
    /\ cpc = "harvested"
    /\ Find(cleaned, Link(<<"z">>), 0) # -1
    /\ Len(harvested) = 3
    /\ harvested[1] = harvested[3]
    /\ harvested[2] # harvested[1]

\* the content the trimming starts from: after the preamble check, the
\* normalization of the headers, the cut to three results and the footer cut
Untrimmed(raw) ==
    CutFooter(CutToThree(HeaderMatches(WorkingContent(raw)),
                         NormalizeHeaders(WorkingContent(raw))))

\* where the k-th block of text u starts and ends: from its boundary mark to
\* the next mark, or to the end of the text
BlockStart(u, k) == HeaderMatches(u)[k]
BlockEnd(u, k) ==
    IF k < Len(HeaderMatches(u)) THEN HeaderMatches(u)[k + 1] ELSE Len(u)

\* the header line of the k-th block, and the body that follows it
HeaderLine(u, k) == Slice(u, BlockStart(u, k), LineEnd(u, BlockStart(u, k)))
Body(u, k) == Slice(u, LineEnd(u, BlockStart(u, k)), BlockEnd(u, k))

\* a body cut after the line of its first link; a body without link as it is
BodyToFirstLink(b) ==
    LET end_pos == FirstLinkEnd(b)
        eol == LineEnd(b, end_pos)
    IN  IF end_pos = -1 THEN b
        ELSE IF eol < Len(b) THEN Slice(b, 0, eol + 1)
        ELSE Slice(b, 0, end_pos)

\* what precedes the first block
Preamble(u) ==
    IF HeaderMatches(u) = <<>> THEN u ELSE Slice(u, 0, HeaderMatches(u)[1])

\* C17: in the digest every block is its header line, verbatim, followed by
\* its body up to the end of the line that holds the body's first link
\* (through the newline, or to the link's end when no newline follows), or
\* by its whole body when the body holds no link; the digest is stripped of
\* the whitespace at its two ends.
C17_BodyEndsAtFirstLinkLine ==
    (cpc = "cleaned" /\ HasMarker(raw_text)) =>
        LET u == Untrimmed(raw_text)
        IN  cleaned =
              Strip(CleanSection(Preamble(u))
                      \o Concat([k \in 1..Len(HeaderMatches(u)) |->
                                    HeaderLine(u, k) \o BodyToFirstLink(Body(u, k))]))

\* the text after the line of a body's first link is gone, a body without a
\* link is kept, and a body that ends with its first link is kept whole
C17_Witness ==
    /\ cpc = "cleaned"
    /\ Len(HeaderMatches(Untrimmed(raw_text))) = 3
    /\ Find(Body(Untrimmed(raw_text), 1), <<"y">>, 0) # -1
    /\ FirstLinkEnd(Body(Untrimmed(raw_text), 1)) # -1
    /\ Find(cleaned, <<"y">>, 0) = -1
    /\ FirstLinkEnd(Body(Untrimmed(raw_text), 2)) = -1
    /\ Strip(Body(Untrimmed(raw_text), 2)) # <<>>
    /\ Find(cleaned, HeaderLine(Untrimmed(raw_text), 2) \o Body(Untrimmed(raw_text), 2), 0) # -1
    /\ FirstLinkEnd(Body(Untrimmed(raw_text), 3)) = Len(Body(Untrimmed(raw_text), 3))

\* the content after the header marker, stripped
AfterMarker(raw) == Strip(Slice(raw, Find(raw, marker, 0) + Len(marker), Len(raw)))

AfterCut(raw) ==
    CutToThree(HeaderMatches(WorkingContent(raw)), NormalizeHeaders(WorkingContent(raw)))

\* C19: the digest never contains the footer marker: when the marker occurs
\* in the content that is left after the cut to three results, the digest is
\* made of what precedes its first occurrence only.
C19_NoFooterInDigest ==
    cpc = "cleaned" =>
        /\ Find(cleaned, footer_marker, 0) = -1
        /\ (HasMarker(raw_text) /\ Find(AfterCut(raw_text), footer_marker, 0) # -1) =>
              cleaned = TrimSections(Strip(Slice(AfterCut(raw_text), 0,
                                                 Find(AfterCut(raw_text), footer_marker, 0))))

\* the footer marker came after two results, and both are in the digest
C19_Witness ==
    /\ cpc = "cleaned"
    /\ HasMarker(raw_text)
    /\ Find(AfterCut(raw_text), footer_marker, 0) # -1
    /\ Len(HeaderMatches(AfterCut(raw_text))) = 3
    /\ Len(HeaderMatches(cleaned)) = 2
    /\ Find(cleaned, footer_marker, 0) = -1

---------------------------------------------------------------------------
(* Claims about retries, checked under Spec                                *)

\* the fetches of the current resolution that ended with an exception
FailedFetches == {i \in 1..Len(fetches) : fetches[i].resp.kind # "ok"}

\* C20: nothing is retried.  Within one resolution no URL is requested twice
\* and a failed fetch is the last fetch of its chain; within one search() the
\* crawler is requested exactly once, a crawler failure is followed by no
\* redirect fetch, and a search that has returned takes no further step.
C20_NoRetry ==
    /\ [](/\ \A i, j \in 1..Len(fetches) : fetches[i].url = fetches[j].url => i = j
          /\ \A i \in FailedFetches : i = Len(fetches) /\ rpc \notin {"head", "fetch"}
          /\ crawls = (IF spc = "idle" THEN 0 ELSE 1)
          /\ failed_step \in {"crawl", "extract"} => nfetch = 0)
    /\ [][spc # "done"]_vars

\* the second hop of a resolution failed and the resolver returned at once
C20_Witness ==
    /\ spc = "resolving"
    /\ rpc = "returned"
    /\ crawls = 1
    /\ Len(fetches) = 2
    /\ FailedFetches = {2}
    /\ nfetch = 2

---------------------------------------------------------------------------
(* Further claims about _trace_url_redirects, checked under SpecResolve    *)

\* the targets of the snippets of one kind, in the order of the body
TargetsOfKind(body, kind) ==
    LET at == SortedSeq({i \in 1..Len(body) : body[i].k = kind})
    IN  [n \in 1..Len(at) |-> body[at[n]].u]

\* the target chosen by priority: the first location.replace(...), else the
\* first location.href = ..., else the first location = ..., else the first
\* meta refresh; <<>> when the body has none of them
PriorityTarget(body) ==
    IF TargetsOfKind(body, "replace") # <<>> THEN <<TargetsOfKind(body, "replace")[1]>>
    ELSE IF TargetsOfKind(body, "href") # <<>> THEN <<TargetsOfKind(body, "href")[1]>>
    ELSE IF TargetsOfKind(body, "assign") # <<>> THEN <<TargetsOfKind(body, "assign")[1]>>
    ELSE IF TargetsOfKind(body, "meta") # <<>> THEN <<TargetsOfKind(body, "meta")[1]>>
    ELSE <<>>

\* C26: after a hop whose collapsed body has at most 1500 characters the
\* resolver turns to the target chosen by pattern priority, wherever the
\* snippets stand in the body; when the body matches no pattern the
\* resolution stops at that hop.
C26_TargetByPatternPriority ==
    \A i \in 1..Len(fetches) :
        LET f == fetches[i]
        IN  (f.resp.kind = "ok" /\ CollapsedLen(f.resp.body) <= RedirectPageLimit) =>
              IF PriorityTarget(f.resp.body) # <<>>
              THEN TurnedTo(i) = PriorityTarget(f.resp.body)[1]
              ELSE /\ i = Len(fetches)
                   /\ rpc = "returned"
                   /\ Last(retval) = ResponseRealUrl(f.url, f.resp)

\* the href target was taken although a meta refresh and a bare assignment
\* precede it in the body, then the first of two assignments
C26_Witness ==
    /\ Len(fetches) = 3
    /\ fetches[1].resp = Ok(<<>>, Ranked)
    /\ fetches[2].url = UrlB
    /\ fetches[2].resp = Ok(<<>>, Twice)
    /\ fetches[3].url = UrlC
    /\ fetches[3].resp = Ok(<<>>, Plain)
    /\ rpc = "returned"

\* the hops whose response arrived and whose body was read
SuccessfulHops == {i \in 1..Len(fetches) : fetches[i].resp.kind = "ok"}

\* C27: every successful hop appends its server-side redirect history and
\* then its final URL to the chain, behind what the earlier hops appended, so
\* after a successful hop the chain is not empty and the terminal URL the
\* resolver returns is the final URL of the last successful hop.
C27_TerminalIsLastSuccessfulHop ==
    /\ \A i \in SuccessfulHops :
           SubSeq(redirect_chain, Len(ChainOf(i - 1)) + 1, Len(ChainOf(i)))
               = HopHistory(fetches[i].url, fetches[i].resp)
    /\ SuccessfulHops # {} => redirect_chain # <<>>
    /\ (rpc = "returned" /\ SuccessfulHops # {}) =>
           LET f == fetches[SetMax(SuccessfulHops)]
           IN  Last(retval) = ResponseRealUrl(f.url, f.resp)

---------------------------------------------------------------------------
(* Two calls of _trace_url_redirects that run concurrently on the one      *)
(* WebSearchService of the router.  The first call is the one modelled by  *)
(* the variables above; the locals of the second are the record `peer`,    *)
(* and its steps are the same code written as functions on that record.    *)

\* mutant: the visited set is an attribute of the service, shared by the calls
VisitedShared(own, other) == own \cup other

\* `visited = set()`: the set a call consults is the one it created itself
VisitedBy(own, other) == own

\* the locals of a fresh call
Fresh(url) ==
    [NoPeer EXCEPT !.initial_url = url, !.current_url = url, !.rpc = "head"]

\* the top of the for loop; `other` is the visited set of the other call
AfterHead(r, depth, other) ==
    IF LoopContinues(r.iter, depth, r.current_url, VisitedBy(r.visited, other))
    THEN [r EXCEPT !.visited = @ \cup {r.current_url}, !.iter = @ + 1, !.rpc = "fetch"]
    ELSE [r EXCEPT !.retval = ChainOrInitial(r.redirect_chain, r.initial_url),
                   !.rpc = "returned"]

\* the response to the pending session.get, or its exception
AfterFetch(r, resp) ==
    LET logged == Append(r.fetches, [url |-> r.current_url, resp |-> resp])
        chain == r.redirect_chain \o HopHistory(r.current_url, resp)
        js_redirect_url == ExtractJsRedirect(resp.body)
    IN  IF resp.kind = "ok"
        THEN IF js_redirect_url # <<>>
             THEN [r EXCEPT !.fetches = logged, !.redirect_chain = chain,
                            !.current_url = js_redirect_url[1], !.rpc = "head"]
             ELSE [r EXCEPT !.fetches = logged, !.redirect_chain = chain,
                            !.retval = ChainOrInitial(chain, r.initial_url),
                            !.rpc = "returned"]
        ELSE IF Caught(resp.exc)
        THEN IF resp.kind = "get"
             THEN [r EXCEPT !.fetches = logged,
                            !.retval = ChainOrInitial(r.redirect_chain, r.initial_url),
                            !.rpc = "returned"]
             ELSE [r EXCEPT !.fetches = logged, !.redirect_chain = chain,
                            !.retval = ChainOrInitial(chain, r.initial_url),
                            !.rpc = "returned"]
        ELSE [r EXCEPT !.fetches = logged,
                       !.redirect_chain = IF resp.kind = "body" THEN chain ELSE @,
                       !.rpc = "raised"]

PeerLoopHead ==
    /\ peer.rpc = "head"
    /\ peer' = AfterHead(peer, max_redirect_depth, visited)
    /\ UNCHANGED <<cvars, rvars, svars, avars>>

PeerFetch(resp) ==
    /\ peer.rpc = "fetch"
    /\ peer' = AfterFetch(peer, resp)
    /\ UNCHANGED <<cvars, rvars, svars, avars>>

PairResponses ==
    { Ok(<<>>, Plain), Ok(<<>>, JsTo(UrlA)), Ok(<<>>, JsTo(UrlB)), Ok(<<UrlD>>, Plain),
      GetError("ClientError"), BodyError("TimeoutError", <<>>),
      BodyError("UnicodeDecodeError", <<>>) }

InitPair ==
    /\ CleanOff
    /\ SearchIdle("off")
    /\ max_redirect_depth = DefaultMaxRedirectDepth
    /\ initial_url \in {UrlA, UrlB}
    /\ current_url = initial_url
    /\ visited = {}
    /\ redirect_chain = <<>>
    /\ iter = 0
    /\ rpc = "head"
    /\ retval = <<>>
    /\ fetches = <<>>
    /\ peer \in {Fresh(u) : u \in {UrlA, UrlB}}
    /\ ApiOff

NextPair ==
    \/ LoopHead
    \/ \E resp \in PairResponses : FetchOk(resp)
    \/ \E resp \in PairResponses : FetchGetError(resp)
    \/ \E resp \in PairResponses : FetchBodyError(resp)
    \/ \E resp \in PairResponses : FetchRaises(resp)
    \/ PeerLoopHead
    \/ \E resp \in PairResponses : PeerFetch(resp)

SpecPair == InitPair /\ [][NextPair]_vars

---------------------------------------------------------------------------
(* C21: the calls share no mutable state *)

\* the locals of the first call, as a record
MainCall ==
    [initial_url |-> initial_url, current_url |-> current_url, visited |-> visited,
     redirect_chain |-> redirect_chain, iter |-> iter, rpc |-> rpc, retval |-> retval,
     fetches |-> fetches]

\* a call run on its own from the locals r, answered by resps in order
RECURSIVE RunAlone(_, _, _)
RunAlone(r, depth, resps) ==
    IF r.rpc = "head" THEN RunAlone(AfterHead(r, depth, {}), depth, resps)
    ELSE IF r.rpc = "fetch" /\ resps # <<>>
    THEN RunAlone(AfterFetch(r, Head(resps)), depth, Tail(resps))
    ELSE r

AnswersTo(r) == [i \in 1..Len(r.fetches) |-> r.fetches[i].resp]

\* where a call stands is where it would stand had it run alone on its own
\* input URL with the responses to its own fetches
OwnInputsOnly(r) ==
    RunAlone(r, max_redirect_depth, <<>>)
        = RunAlone(Fresh(r.initial_url), max_redirect_depth, AnswersTo(r))

\* the call gave up at the top of the loop, on the target of a JS redirect
GaveUpAtTarget(r) ==
    /\ r.rpc = "returned"
    /\ r.fetches # <<>>
    /\ r.fetches[Len(r.fetches)].resp.kind = "ok"
    /\ ExtractJsRedirect(r.fetches[Len(r.fetches)].resp.body) # <<>>

\* a call gives up on a target only at its depth limit or when it has itself
\* fetched that target before
GivesUpForOwnReason(r) ==
    GaveUpAtTarget(r) =>
        \/ r.iter >= max_redirect_depth
        \/ \E i \in 1..Len(r.fetches) : r.fetches[i].url = r.current_url

\* C21: under every interleaving of two concurrent resolutions, the state and
\* the result of each depend only on its own input URL and on the responses
\* to its own fetches; in particular a URL one call has visited is still
\* fetched when the other call reaches it.
C21_CallsShareNoState ==
    /\ OwnInputsOnly(MainCall)
    /\ OwnInputsOnly(peer)
    /\ GivesUpForOwnReason(MainCall)
    /\ GivesUpForOwnReason(peer)

\* both calls have returned, the second one fetched a URL the first had
\* visited, and the two results differ
C21_Witness ==
    /\ rpc = "returned"
    /\ peer.rpc = "returned"
    /\ initial_url = UrlA
    /\ peer.initial_url = UrlA
    /\ UrlB \in visited
    /\ UrlB \in peer.visited
    /\ Len(peer.fetches) = 2
    /\ retval # peer.retval

---------------------------------------------------------------------------
(* CacheManager (src/app/cache/redis_cache.py)                             *)
(*                                                                         *)
(* Time is counted in days.  A stored entry is the string Redis holds,     *)
(* described by what json.loads makes of it:                               *)
(*   json       "empty" (the empty string), "invalid", "value" (valid JSON *)
(*              that is no object) or "object";                            *)
(*   cached_at  <<>> when the key is missing, <<"iso", t>> for the ISO     *)
(*              string of time t, <<"str">> for another string, <<"num">>  *)
(*              for a value that is no string;                             *)
(*   result     <<>> when the key is missing, else <<payload>>;            *)
(*   expire_at  the time at which Redis drops the entry.                   *)

\* `timedelta(days=7)`
CacheDays == 7

\* `self._cache_ttl = 7 * 24 * 60 * 60`, in days
CacheTtl == 7

\* mutant: the key is built from the query as it was typed
LowerAsTyped(q) == q

\* str.lower on the queries of the model
Lower(q) == IF q = "Foo" THEN "foo" ELSE IF q = "Bar" THEN "bar" ELSE q

\* hashlib.md5(...).hexdigest(): one digest per input
Md5(s) == <<"md5", s>>

\* _generate_cache_key
GenerateCacheKey(prefix, q) == <<"inforecon", prefix, Md5(Lower(q))>>

\* datetime.isoformat and datetime.fromisoformat
IsoFormat(t) == <<"iso", t>>
IsIsoString(x) == x # <<>> /\ x[1] = "iso"
FromIsoFormat(x) == x[2]

\* a dictionary with one more key, and without a key
Put(f, k, v) == [x \in (DOMAIN f) \cup {k} |-> IF x = k THEN v ELSE f[x]]
Delete(f, k) == [x \in (DOMAIN f) \ {k} |-> f[x]]

\* redis GET at time t: <<>> for nil, <<entry>> otherwise
RedisGet(s, k, t) ==
    IF k \in DOMAIN s /\ s[k].expire_at > t THEN <<s[k]>> ELSE <<>>

\* what Redis holds at time t
Held(s, t) == {k \in DOMAIN s : s[k].expire_at > t}

\* BaseModel.model_dump(mode='json') of a WebSearchInfo
ModelDump(m) ==
    [kind |-> "dict", query |-> m.query, search_result |-> m.search_result,
     error |-> m.error]

\* isinstance(x, BaseModel)
IsModel(x) == "kind" \notin DOMAIN x

\* CacheManager.get at time t on the store s: the return value (<<>> for
\* None), the exception that leaves the method ("" for none) and the store
\* afterwards
CacheManagerGet(s, t, prefix, q) ==
    LET cache_key == GenerateCacheKey(prefix, q)
        cached_data == RedisGet(s, cache_key, t)
        Miss == [ret |-> <<>>, raised |-> "", store |-> s]
        Dropped == [ret |-> <<>>, raised |-> "", store |-> Delete(s, cache_key)]
        Raises(exc) == [ret |-> <<>>, raised |-> exc, store |-> s]
    IN  IF cached_data = <<>> \/ cached_data[1].json = "empty" THEN Miss
        ELSE LET data == cached_data[1]
             IN  IF data.json = "invalid" THEN Dropped
                 ELSE IF data.json = "value" THEN Raises("AttributeError")
                 ELSE IF data.cached_at = <<>> \/ data.cached_at[1] = "num"
                 THEN Raises("TypeError")
                 ELSE IF ~IsIsoString(data.cached_at) THEN Dropped
                 ELSE IF t - FromIsoFormat(data.cached_at) > CacheDays THEN Dropped
                 ELSE [ret |-> data.result, raised |-> "", store |-> s]

\* the entry CacheManager.set writes at time t
CacheData(t, q, value) ==
    [json |-> "object", cached_at |-> IsoFormat(t), query |-> q,
     result |-> <<IF IsModel(value) THEN ModelDump(value) ELSE value>>,
     expire_at |-> t + CacheTtl]

\* CacheManager.set at time t on the store s: the store afterwards
CacheManagerSet(s, t, prefix, q, value) ==
    Put(s, GenerateCacheKey(prefix, q), CacheData(t, q, value))

---------------------------------------------------------------------------
(* cache_manager.get and cache_manager.set called in any order on a Redis  *)
(* that may already hold an entry this program did not write               *)

MaxSets == 2
MaxClock == 8

\* a key stored without a TTL
NoExpiry == 1000

Prefixes == {"search", "dns"}
CacheQueries == {"foo", "Foo", "bar"}

\* the keys set is called with: one query in two spellings, the same query
\* under the other prefix, and another query
SetCalls == {<<"search", "foo">>, <<"search", "Foo">>, <<"dns", "foo">>, <<"search", "bar">>}

\* the days that pass between two calls
CacheSteps == {3, 4}

\* what set is called with: a model, and a dictionary
CacheValues == {OkResult("foo", <<"x">>), ModelDump(OkResult("bar", <<>>))}

Foreign(json, cached_at, res) ==
    [json |-> json, cached_at |-> cached_at, query |-> "old", result |-> res,
     expire_at |-> NoExpiry]

OldPayload == ModelDump(OkResult("old", <<"o">>))

\* entries Redis may hold when the program starts: strings that are not
\* JSON, JSON that is not an object, objects without a usable cached_at,
\* objects without a result, and sound entries of several ages
ForeignEntries ==
    { Foreign("empty", <<>>, <<>>),
      Foreign("invalid", <<>>, <<>>),
      Foreign("value", <<>>, <<>>),
      Foreign("object", <<>>, <<OldPayload>>),
      Foreign("object", <<"num">>, <<OldPayload>>),
      Foreign("object", <<"str">>, <<OldPayload>>),
      Foreign("object", IsoFormat(0), <<>>),
      Foreign("object", IsoFormat(0), <<OldPayload>>),
      Foreign("object", IsoFormat(0 - CacheDays), <<OldPayload>>),
      Foreign("object", IsoFormat(0 - CacheDays - 1), <<OldPayload>>) }

EmptyStore == [k \in {} |-> NoGot]

CacheGet(prefix, q) ==
    /\ apc = "off"
    /\ LET o == CacheManagerGet(store, now, prefix, q)
           cache_key == GenerateCacheKey(prefix, q)
       IN  /\ store' = o.store
           /\ got' = [prefix |-> prefix, query |-> q, at |-> now, sets |-> nsets,
                      before |-> RedisGet(store, cache_key, now),
                      ret |-> o.ret, raised |-> o.raised,
                      gone |-> cache_key \notin DOMAIN o.store]
    /\ UNCHANGED <<now, written, nsets, apc, param, headers, reply, ncalls, nreq>>
    /\ UNCHANGED <<cvars, rvars, svars, peer>>

CacheSet(prefix, q, value) ==
    /\ apc = "off"
    /\ nsets < MaxSets
    /\ store' = CacheManagerSet(store, now, prefix, q, value)
    /\ written' = Append(written, [prefix |-> prefix, query |-> q, at |-> now,
                                   value |-> value, req |-> nreq])
    /\ nsets' = nsets + 1
    /\ got' = NoGot
    /\ UNCHANGED <<now, apc, param, headers, reply, ncalls, nreq>>
    /\ UNCHANGED <<cvars, rvars, svars, peer>>

\* d days pass between two calls, or between two requests
Tick(d) ==
    /\ apc \in {"off", "idle", "responded"}
    /\ now + d <= MaxClock
    /\ now' = now + d
    /\ got' = NoGot
    /\ apc' = IF apc = "responded" THEN "idle" ELSE apc
    /\ UNCHANGED <<store, written, nsets, param, headers, reply, ncalls, nreq>>
    /\ UNCHANGED <<cvars, rvars, svars, peer>>

InitCache ==
    /\ CleanOff
    /\ ResolverIdle
    /\ max_redirect_depth = DefaultMaxRedirectDepth
    /\ SearchIdle("off")
    /\ peer = NoPeer
    /\ store \in {EmptyStore}
                   \cup {Put(EmptyStore, GenerateCacheKey("search", "foo"), e) :
                            e \in ForeignEntries}
    /\ now = 0
    /\ got = NoGot
    /\ written = <<>>
    /\ nsets = 0
    /\ apc = "off"
    /\ param = ""
    /\ headers = {}
    /\ reply = NoReply
    /\ ncalls = 0
    /\ nreq = 0

NextCache ==
    \/ \E prefix \in Prefixes, q \in CacheQueries : CacheGet(prefix, q)
    \/ \E c \in SetCalls, value \in CacheValues : CacheSet(c[1], c[2], value)
    \/ \E d \in CacheSteps : Tick(d)

SpecCache == InitCache /\ [][NextCache]_vars

---------------------------------------------------------------------------
(* Claims about CacheManager, checked under SpecCache                      *)

\* a get has just returned or raised
GetDone == got.prefix # ""

\* the stored string cannot be decoded into an entry with a timestamp
Undecodable(e) ==
    \/ e.json \in {"empty", "invalid", "value"}
    \/ e.cached_at = <<>>
    \/ e.cached_at[1] # "iso"

\* the stored entry is older than 7 days at time t
OlderThanSevenDays(e, t) ==
    /\ ~Undecodable(e)
    /\ t - e.cached_at[2] > 7

\* C22: a get that finds an entry older than 7 days, or one that cannot be
\* decoded (invalid JSON, JSON that is not an object, a missing or
\* malformed cached_at), deletes the entry and returns None without raising.
C22_BadEntryIsDeletedMiss ==
    (/\ GetDone
     /\ got.before # <<>>
     /\ Undecodable(got.before[1]) \/ OlderThanSevenDays(got.before[1], got.at))
        => /\ got.raised = ""
           /\ got.ret = <<>>
           /\ got.gone

\* the calls of set that precede the get and name its key: the same prefix,
\* and the same query up to letter case
SameUpToCase(a, b) ==
    \/ a = b
    \/ {a, b} = {"foo", "Foo"}
    \/ {a, b} = {"bar", "Bar"}

SetsFor(prefix, q, n) ==
    {i \in 1..n : written[i].prefix = prefix /\ SameUpToCase(written[i].query, q)}

\* what a stored value reads back as
Payload(value) == IF "kind" \in DOMAIN value THEN value ELSE ModelDump(value)

\* C23: a get made less than 7 days after the last set for the same prefix
\* and the same query up to letter case returns the payload of that set (so
\* a later set has overwritten an earlier one), and a payload this program
\* stored is returned only to a get for its prefix and its query up to case.
C23_RoundTrip ==
    GetDone =>
        LET mine == SetsFor(got.prefix, got.query, got.sets)
        IN  /\ (mine # {} /\ got.at - written[SetMax(mine)].at < 7)
                  => /\ got.raised = ""
                     /\ got.ret = <<Payload(written[SetMax(mine)].value)>>
            /\ (got.ret # <<>> /\ got.ret[1] # OldPayload)
                  => /\ mine # {}
                     /\ got.ret = <<Payload(written[SetMax(mine)].value)>>

\* two sets for one key under differently cased queries, then a get under
\* a third spelling of the key returns the second payload
C23_Witness ==
    /\ GetDone
    /\ got.sets = 2
    /\ written[1].prefix = got.prefix
    /\ written[2].prefix = got.prefix
    /\ written[1].query = "foo"
    /\ written[2].query = "Foo"
    /\ written[1].value # written[2].value
    /\ written[1].at < written[2].at
    /\ got.query = "foo"
    /\ got.at > written[2].at
    /\ got.ret = <<Payload(written[2].value)>>

---------------------------------------------------------------------------
(* GET /search: the router's search() behind @cached("search")             *)
(* (src/app/api/web_search_router.py, src/app/cache/cache_decorator.py)    *)

MaxRequests == 3

\* truth value of a result's error: None and "" are false
Truthy(err) == err # <<>> /\ err[1] # ""

HTTPException(status_code, detail) == [status_code |-> status_code, detail |-> detail]

\* str(e) of an HTTPException
StrOfHTTPException(e) == <<ToString(e.status_code), ": ">> \o e.detail

BadRequest == 400
InternalServerError == 500
StatusOk == 200

\* the try block of the router's search(), given what the service returned
TryBlock(res) ==
    IF Truthy(res.error)
    THEN [raised |-> TRUE, exc |-> HTTPException(BadRequest, <<res.error[1]>>),
          value |-> NoResult]
    ELSE [raised |-> FALSE, exc |-> HTTPException(0, <<>>), value |-> res]

\* the router's search(): `except Exception` also catches the HTTPException
\* the try block raised
SearchEndpoint(res) ==
    LET t == TryBlock(res)
    IN  IF t.raised
        THEN [raised |-> TRUE,
              exc |-> HTTPException(InternalServerError, StrOfHTTPException(t.exc)),
              value |-> NoResult]
        ELSE t

\* mutant: an empty digest is not worth storing
ShouldCacheNonEmpty(res) == ~Truthy(res.error) /\ res.search_result # <<>>

\* should_cache of the wrapper
ShouldCache(res) == ~Truthy(res.error)

\* mutant: a hit is not marked with its key
HitHeadersWithoutKey(cache_key) == {<<"X-Cache-Status", "HIT">>}

\* the headers the wrapper sets on a hit
HitHeaders(cache_key) == {<<"X-Cache-Status", "HIT">>, <<"X-Cache-Key", cache_key>>}

\* the header the wrapper sets after a miss
MissHeaders == {<<"X-Cache-Status", "MISS">>}

\* the endpoint's name for the cache
CachePrefix == "search"

\* the response FastAPI builds from a returned value and from an exception
Returned(value) ==
    [status |-> StatusOk, body |-> <<IF IsModel(value) THEN ModelDump(value) ELSE value>>,
     detail |-> <<>>]
Raised(e) == [status |-> e.status_code, body |-> <<>>, detail |-> e.detail]
Unhandled == [status |-> InternalServerError, body |-> <<>>, detail |-> <<>>]

\* a request arrives: the wrapper extracts the query parameter, and calls
\* the function at once when there is none
Request(q) ==
    /\ apc \in {"idle", "responded"}
    /\ nreq < MaxRequests
    /\ nreq' = nreq + 1
    /\ param' = q
    /\ headers' = {}
    /\ reply' = NoReply
    /\ got' = NoGot
    /\ IF q = ""
       THEN apc' = "call" /\ ncalls' = 1
       ELSE apc' = "lookup" /\ ncalls' = 0
    /\ spc' = "idle"
    /\ query' = ""
    /\ markdown' = <<>>
    /\ cleaned_content' = <<>>
    /\ extracted_urls' = <<>>
    /\ idx' = 0
    /\ final_content' = <<>>
    /\ result' = NoResult
    /\ crawls' = 0
    /\ nfetch' = 0
    /\ failed_step' = "none"
    /\ failed_message' = ""
    /\ calls' = <<>>
    /\ pairs' = <<>>
    /\ initial_url' = <<>>
    /\ current_url' = <<>>
    /\ visited' = {}
    /\ redirect_chain' = <<>>
    /\ iter' = 0
    /\ rpc' = "idle"
    /\ retval' = <<>>
    /\ fetches' = <<>>
    /\ UNCHANGED <<max_redirect_depth, store, now, written, nsets, peer>>
    /\ UNCHANGED cvars

\* `cached_result = await cache_manager.get(...)` and the branch on it
Lookup ==
    /\ apc = "lookup"
    /\ LET o == CacheManagerGet(store, now, CachePrefix, param)
           cache_key == GenerateCacheKey(CachePrefix, param)
       IN  /\ store' = o.store
           /\ got' = [prefix |-> CachePrefix, query |-> param, at |-> now,
                      sets |-> nsets, before |-> RedisGet(store, cache_key, now),
                      ret |-> o.ret, raised |-> o.raised,
                      gone |-> cache_key \notin DOMAIN o.store]
           /\ IF o.raised # ""
              THEN /\ reply' = Unhandled
                   /\ apc' = "responded"
                   /\ UNCHANGED <<headers, ncalls>>
              ELSE IF o.ret # <<>>
              THEN /\ headers' = HitHeaders(cache_key)
                   /\ reply' = Returned(o.ret[1])
                   /\ apc' = "responded"
                   /\ UNCHANGED ncalls
              ELSE /\ apc' = "call"
                   /\ ncalls' = ncalls + 1
                   /\ UNCHANGED <<headers, reply>>
    /\ UNCHANGED <<now, written, nsets, param, nreq, peer>>
    /\ UNCHANGED <<cvars, rvars, svars>>

\* `result = await web_search_service.search(q)`
ServiceCalled ==
    /\ apc = "call"
    /\ Search(param)

\* the service returned: the rest of the router's search() and, when that
\* returns, the rest of the wrapper
FunctionEnds ==
    /\ apc = "call"
    /\ spc = "done"
    /\ apc' = "responded"
    /\ LET out == SearchEndpoint(result)
       IN  IF out.raised
           THEN /\ reply' = Raised(out.exc)
                /\ UNCHANGED <<headers, store, written, nsets>>
           ELSE /\ reply' = Returned(out.value)
                /\ IF param = ""
                   THEN UNCHANGED <<headers, store, written, nsets>>
                   ELSE /\ headers' = MissHeaders
                        /\ IF ShouldCache(out.value)
                           THEN /\ store' = CacheManagerSet(store, now, CachePrefix,
                                                            param, out.value)
                                /\ written' = Append(written,
                                       [prefix |-> CachePrefix, query |-> param,
                                        at |-> now, value |-> out.value, req |-> nreq])
                                /\ nsets' = nsets + 1
                           ELSE UNCHANGED <<store, written, nsets>>
    /\ UNCHANGED <<now, got, param, ncalls, nreq, peer>>
    /\ UNCHANGED <<cvars, rvars, svars>>

ApiQueries == {"", "foo", "Foo", "bar"}

\* a page without the marker, and a page with one result
ApiMarkups ==
    { Render(<<"x", "\n">>, <<"inline">>),
      Render(marker \o <<"\n">>, <<"inline">>) }

ApiResponses ==
    { Ok(<<>>, Plain), Ok(<<UrlD>>, Plain), GetError("ClientError"),
      BodyError("TimeoutError", <<>>), BodyError("UnicodeDecodeError", <<>>) }

\* the days that pass between two requests
ApiDays == {3, 4}

InitApi ==
    /\ CleanOff
    /\ ResolverIdle
    /\ max_redirect_depth = DefaultMaxRedirectDepth
    /\ SearchIdle("idle")
    /\ peer = NoPeer
    /\ store = EmptyStore
    /\ now = 0
    /\ got = NoGot
    /\ written = <<>>
    /\ nsets = 0
    /\ apc = "idle"
    /\ param = ""
    /\ headers = {}
    /\ reply = NoReply
    /\ ncalls = 0
    /\ nreq = 0

NextApi ==
    \/ \E q \in ApiQueries : Request(q)
    \/ Lookup
    \/ ServiceCalled
    \/ FunctionEnds
    \/ \E d \in ApiDays : Tick(d)
    \/ \E m \in ApiMarkups : CrawlOk(m)
    \/ \E msg \in CrawlMessages : CrawlRaises(msg)
    \/ CrawlNoMarkdown
    \/ LoopNext
    \/ Rewrite
    \/ ResolveRaised
    \/ LoopHead
    \/ \E resp \in ApiResponses : FetchOk(resp)
    \/ \E resp \in ApiResponses : FetchGetError(resp)
    \/ \E resp \in ApiResponses : FetchBodyError(resp)
    \/ \E resp \in ApiResponses : FetchRaises(resp)

SpecApi == InitApi /\ [][NextApi]_vars

---------------------------------------------------------------------------
(* Claims about the endpoint, checked under SpecApi                        *)

Responded == apc = "responded"

\* the wrapper looked the query up and the cache had a result / had none
Hit == got.prefix # "" /\ got.raised = "" /\ got.ret # <<>>
Miss == got.prefix # "" /\ got.raised = "" /\ got.ret = <<>>

HeaderNames == {h[1] : h \in headers}

\* this request has written to the cache
StoredNow == \E i \in 1..Len(written) : written[i].req = nreq

\* a request with a query that hit: the cached result is returned, the
\* function was not invoked, both headers are set
HitServed ==
    (Responded /\ param # "" /\ Hit)
        => /\ ncalls = 0
           /\ crawls = 0
           /\ reply = Returned(got.ret[1])
           /\ <<"X-Cache-Status", "HIT">> \in headers
           /\ "X-Cache-Key" \in HeaderNames

\* a request without a query: the function is called, and neither the cache
\* nor the headers are touched
NoQueryBypasses ==
    (Responded /\ param = "")
        => /\ ncalls = 1
           /\ got = NoGot
           /\ ~StoredNow
           /\ headers = {}

C25_OnlySuccessfulStored ==
    /\ \A k \in Held(store, now) : store[k].result[1].error = <<>>
    /\ (Responded /\ reply.status # StatusOk) => ~StoredNow

\* the service has returned to the router in this request
ServiceReturned == Responded /\ ncalls = 1 /\ spc = "done"

\* C28: when the pipeline returns a result whose error field is set (to a
\* message), the endpoint answers 400 with that error as detail; 500 is answered only when
\* the call of the service itself raises, which search() never does.
C28_ErrorResultIs400 ==
    ServiceReturned =>
        /\ (result.error # <<>> /\ result.error # <<"">>)
              => /\ reply.status = 400
                 /\ reply.detail = result.error
        /\ reply.status # 500

\* the sets of earlier requests for the query of this one, up to letter case
EarlierSets ==
    {i \in 1..Len(written) :
        /\ written[i].req < nreq
        /\ written[i].prefix = "search"
        /\ SameUpToCase(written[i].query, param)}

EmptyDigest(value) == value.search_result = <<>> /\ value.error = <<>>

\* C29: a search that ends with an empty digest and no error is stored, and
\* every later request for the same query up to letter case, made less than
\* 7 days after, is answered from the cache with that empty digest and
\* without a call of the crawler.
C29_EmptyDigestCached ==
    /\ (ServiceReturned /\ param # "" /\ EmptyDigest(result))
          => /\ reply = Returned(result)
             /\ written # <<>>
             /\ written[Len(written)] =
                   [prefix |-> "search", query |-> param, at |-> now,
                    value |-> result, req |-> nreq]
             /\ RedisGet(store, <<"inforecon", "search", <<"md5", Lower(param)>>>>, now)
                   # <<>>
    /\ (/\ Responded
        /\ param # ""
        /\ EarlierSets # {}
        /\ EmptyDigest(written[SetMax(EarlierSets)].value)
        /\ got.at - written[SetMax(EarlierSets)].at < 7)
          => /\ Hit
             /\ ncalls = 0
             /\ crawls = 0
             /\ reply.status = 200
             /\ reply.body = <<Payload(written[SetMax(EarlierSets)].value)>>
             /\ reply.body[1].search_result = <<>>

\* "foo" found nothing on a page without the marker; days later "Foo" is
\* answered from the cache
C29_Witness ==
    /\ Responded
    /\ nreq = 2
    /\ param = "Foo"
    /\ Len(written) = 1
    /\ written[1].query = "foo"
    /\ EmptyDigest(written[1].value)
    /\ got.at > written[1].at
    /\ Hit
    /\ crawls = 0
    /\ reply.body[1].search_result = <<>>

=============================================================================
